---- MODULE Spec2Model ----
(***************************************************************************)
(* Model of cargo's crypto module: the trusted key set and its             *)
(* verification procedure (src/cargo/crypto/pgp.rs) and the two digest     *)
(* adapters (src/cargo/crypto/sha256.rs, sha512.rs).                       *)
(***************************************************************************)
EXTENDS Integers, Sequences, FiniteSets, TLC

\* ---------------------------------------------------------------- bounds
\* longest key set the verification runs explore
MaxKeys == 3
\* longest configuration the loading runs explore
MaxEntries == 2
\* digest runs: operations on one digest, bytes per update, toy block length
MaxOps == 3
MaxChunk == 2
ToyBlock == 2

\* ------------------------------------------------------- value universes
\* pbp::PgpKey values.  "X" is a key whose text parses but whose conversion
\* to an ed25519 public key fails at verification time.
Keys == {"A", "B", "X"}

\* textual key encodings found in a configuration; "junk" does not parse
KeyTexts == {"tA", "tB", "tX", "junk"}

\* an optional boolean field of an entry
OptBool == {"absent", "true", "false"}

Entries == [key : KeyTexts, can_commit : OptBool, can_rotate : OptBool]

\* the entries the verification runs load: every key with every grant, and
\* one entry that does not parse
CanonEntries ==
  {e \in Entries : /\ e.can_commit # "false" /\ e.can_rotate # "false"
                   /\ (e.key = "junk" => e.can_commit = "absent" /\ e.can_rotate = "absent")}

Privilege == {"Commit", "Rotate"}

\* 20-byte fingerprints, abstracted to three values; 3 is the fingerprint of
\* no key of the universe
Fingerprints == {1, 2, 3}

Messages == {"m1", "m2"}

\* a pbp::PgpSig: made by the secret key of `signer` over `msg`, carrying
\* the claimed fingerprint `fp`
Signatures == [signer : {"A", "B"}, msg : {"m1"}, fp : Fingerprints]

\* ------------------------------------------------------ pbp capabilities
\* PgpKey::fingerprint: SHA-1 of the key material (A and X collide)
fingerprint(key) ==
  CASE key = "A" -> 1
    [] key = "B" -> 2
    [] key = "X" -> 1

\* <PgpKey as FromStr>::from_str
parse(text) ==
  CASE text = "tA" -> [ok |-> TRUE, key |-> "A"]
    [] text = "tB" -> [ok |-> TRUE, key |-> "B"]
    [] text = "tX" -> [ok |-> TRUE, key |-> "X"]
    [] OTHER       -> [ok |-> FALSE, key |-> "none"]

\* PgpKey::to_dalek: Result<PublicKey, SignatureError>
to_dalek(key) ==
  IF key = "X" THEN [ok |-> FALSE, key |-> "none"]
               ELSE [ok |-> TRUE, key |-> key]

\* PgpSig::verify_dalek: the signature math, a bool
verify_dalek(sig, dalek_key, data) ==
  sig.signer = dalek_key /\ sig.msg = data

\* ------------------------------------------------------------- loading
\* variant: a missing grant counts as given
serde_default_true(field) ==
  IF field = "absent" THEN TRUE ELSE field = "true"

\* #[serde(default)] on a bool field
serde_default(field) ==
  IF field = "absent" THEN FALSE ELSE field = "true"

deserialize_key(text) ==
  LET r == parse(text)
  IN  IF r.ok THEN [ok |-> TRUE, key |-> r.key]
              ELSE [ok |-> FALSE, key |-> "none"]

\* #[derive(Deserialize)] struct TrustedKey
TrustedKey_deserialize(entry) ==
  LET k == deserialize_key(entry.key)
  IN  IF ~k.ok
        THEN [ok |-> FALSE,
              rec |-> [key |-> "none", can_commit |-> FALSE, can_rotate |-> FALSE]]
        ELSE [ok |-> TRUE,
              rec |-> [key |-> k.key,
                       can_commit |-> serde_default(entry.can_commit),
                       can_rotate |-> serde_default(entry.can_rotate)]]

\* variant: an entry that fails is skipped and the rest is kept
RECURSIVE Vec_deserialize_skip(_, _, _)
Vec_deserialize_skip(cfg, i, acc) ==
  IF i > Len(cfg)
    THEN [ok |-> TRUE, keys |-> acc, entry_index |-> 0]
    ELSE LET r == TrustedKey_deserialize(cfg[i])
         IN  Vec_deserialize_skip(cfg, i + 1, IF r.ok THEN Append(acc, r.rec) ELSE acc)

\* Vec<TrustedKey>: elements are deserialized in order, the first error
\* aborts and the elements collected so far are dropped
RECURSIVE Vec_deserialize(_, _, _)
Vec_deserialize(cfg, i, acc) ==
  IF i > Len(cfg)
    THEN [ok |-> TRUE, keys |-> acc, entry_index |-> 0]
    ELSE LET r == TrustedKey_deserialize(cfg[i])
         IN  IF ~r.ok
               THEN [ok |-> FALSE, keys |-> <<>>, entry_index |-> i]
               ELSE Vec_deserialize(cfg, i + 1, Append(acc, r.rec))

\* #[derive(Deserialize)] struct TrustedKeySet
TrustedKeySet_deserialize(cfg) == Vec_deserialize(cfg, 1, <<>>)

\* ---------------------------------------------------------- verification
\* variant: any grant counts for every privilege
privileged_any(rec, privilege) == rec.can_commit \/ rec.can_rotate

privileged(rec, privilege) ==
  CASE privilege = "Commit" -> rec.can_commit
    [] privilege = "Rotate" -> rec.can_rotate

\* the free function verify: Ok(true), Ok(false) or Err
OkTrue  == [ok |-> TRUE,  val |-> TRUE,  err |-> "none"]
OkFalse == [ok |-> TRUE,  val |-> FALSE, err |-> "none"]
Err(key) == [ok |-> FALSE, val |-> FALSE, err |-> key]

\* variant: a failed key conversion counts as a signature that does not verify
verify_swallow(key, sig, data) ==
  LET d == to_dalek(key)
  IN  IF d.ok /\ verify_dalek(sig, d.key, data) THEN OkTrue ELSE OkFalse

verify(key, sig, data) ==
  LET d == to_dalek(key)
  IN  IF ~d.ok THEN Err(key)
      ELSE IF verify_dalek(sig, d.key, data) THEN OkTrue ELSE OkFalse

\* variant: the hinted record is looked up without regard to the privilege
matched_key_unprivileged(keys, privilege, fp) ==
  LET hits == {i \in 1..Len(keys) : fingerprint(keys[i].key) = fp}
  IN  IF hits = {} THEN 0
      ELSE CHOOSE i \in hits : \A j \in hits : i <= j

\* variant: the last match is taken instead of the first
matched_key_last(keys, privilege, fp) ==
  LET hits == {i \in 1..Len(keys) :
                 privileged(keys[i], privilege) /\ fingerprint(keys[i].key) = fp}
  IN  IF hits = {} THEN 0
      ELSE CHOOSE i \in hits : \A j \in hits : i >= j

\* self.keys.iter().find(..): index of the first match, 0 for None
matched_key(keys, privilege, fp) ==
  LET hits == {i \in 1..Len(keys) :
                 privileged(keys[i], privilege) /\ fingerprint(keys[i].key) = fp}
  IN  IF hits = {} THEN 0
      ELSE CHOOSE i \in hits : \A j \in hits : i <= j

\* self.keys.iter().filter(..): the indices kept, in order.  Some(key) !=
\* matched_key compares the records by value (derived PartialEq)
RECURSIVE other_keys_from(_, _, _, _)
other_keys_from(keys, privilege, m, i) ==
  IF i > Len(keys) THEN <<>>
  ELSE LET rest == other_keys_from(keys, privilege, m, i + 1)
       IN  IF privileged(keys[i], privilege) /\ (m = 0 \/ keys[i] # keys[m])
             THEN <<i>> \o rest
             ELSE rest

\* variant: the scan is not restricted to the records holding the privilege
other_keys_all(keys, privilege, m) ==
  SelectSeq([j \in 1..Len(keys) |-> j], LAMBDA j : m = 0 \/ keys[j] # keys[m])

\* variant: the scan leaves out every record with the matched record's key,
\* whatever its grants
other_keys_by_key(keys, privilege, m) ==
  SelectSeq([j \in 1..Len(keys) |-> j],
            LAMBDA j : /\ privileged(keys[j], privilege)
                       /\ (m = 0 \/ keys[j].key # keys[m].key))

other_keys(keys, privilege, m) == other_keys_from(keys, privilege, m, 1)

\* variant: the scan gives up after its first record
scan_first_only(keys, others, sig, data, calls) ==
  IF others = <<>> THEN [result |-> OkFalse, calls |-> calls]
  ELSE LET r == verify(keys[Head(others)].key, sig, data)
       IN  [result |-> r, calls |-> Append(calls, Head(others))]

\* for key in other_keys { if verify(..)? { return Ok(true) } }  Ok(false)
RECURSIVE scan(_, _, _, _, _)
scan(keys, others, sig, data, calls) ==
  IF others = <<>> THEN [result |-> OkFalse, calls |-> calls]
  ELSE LET i == Head(others)
           r == verify(keys[i].key, sig, data)
           c == Append(calls, i)
       IN  IF ~r.ok THEN [result |-> r, calls |-> c]
           ELSE IF r.val THEN [result |-> OkTrue, calls |-> c]
           ELSE scan(keys, Tail(others), sig, data, c)

\* variant: the fallback scan does not leave the matched record out
TrustedKeySet_verify_rescan(keys, data, sig, privilege) ==
  LET m  == matched_key(keys, privilege, sig.fp)
      f  == IF m = 0 THEN OkFalse ELSE verify(keys[m].key, sig, data)
      c0 == IF m = 0 THEN <<>> ELSE <<m>>
  IN  IF ~f.ok THEN [result |-> f, calls |-> c0, fast |-> m]
      ELSE IF f.val THEN [result |-> OkTrue, calls |-> c0, fast |-> m]
      ELSE LET s == scan(keys, other_keys(keys, privilege, 0), sig, data, c0)
           IN  [result |-> s.result, calls |-> s.calls, fast |-> m]

\* TrustedKeySet::verify; `calls` lists the records the signature math was
\* invoked on, `fast` is the fast-path record (0 when there is none)
TrustedKeySet_verify(keys, data, sig, privilege) ==
  LET fp == sig.fp
      m  == matched_key(keys, privilege, fp)
      f  == IF m = 0 THEN OkFalse ELSE verify(keys[m].key, sig, data)
      c0 == IF m = 0 THEN <<>> ELSE <<m>>
  IN  IF ~f.ok THEN [result |-> f, calls |-> c0, fast |-> m]
      ELSE IF f.val THEN [result |-> OkTrue, calls |-> c0, fast |-> m]
      ELSE LET s == scan(keys, other_keys(keys, privilege, m), sig, data, c0)
           IN  [result |-> s.result, calls |-> s.calls, fast |-> m]

\* --------------------------------------------------------------- digests
Algorithms == {"SHA256", "SHA512"}
Bytes == {0, 1}

\* output lengths of the two adapters, in bytes
Sha256Len == 32
Sha512Len == 64

\* crypto_hash::Hasher, modelled as a Merkle-Damgard toy: a chaining value,
\* a buffer shorter than one block and the number of bytes absorbed.  As in
\* the OpenSSL backend a finalized hasher starts over on its next use.
block_len(alg) == IF alg = "SHA256" THEN ToyBlock ELSE 2 * ToyBlock
out_len(alg) == IF alg = "SHA256" THEN Sha256Len ELSE Sha512Len
iv(alg) == IF alg = "SHA256" THEN 5 ELSE 11
Modulus == 251

RECURSIVE compress(_, _)
compress(h, block) ==
  IF block = <<>> THEN (h * 7 + 3) % Modulus
  ELSE compress((h * 31 + Head(block) + 1) % Modulus, Tail(block))

Hasher_new(alg) ==
  [alg |-> alg, h |-> iv(alg), buf |-> <<>>, len |-> 0, finalized |-> FALSE]

Hasher_init(hs) == Hasher_new(hs.alg)

RECURSIVE absorb(_, _)
absorb(hs, bytes) ==
  IF bytes = <<>> THEN hs
  ELSE LET b == Append(hs.buf, Head(bytes))
       IN  IF Len(b) = block_len(hs.alg)
             THEN absorb([hs EXCEPT !.h = compress(hs.h, b), !.buf = <<>>,
                                    !.len = hs.len + 1], Tail(bytes))
             ELSE absorb([hs EXCEPT !.buf = b, !.len = hs.len + 1], Tail(bytes))

\* <Hasher as Write>::write: takes the whole buffer, returns its length
Hasher_write(hs, bytes) ==
  absorb(IF hs.finalized THEN Hasher_init(hs) ELSE hs, bytes)

\* Write::write_all: hands the buffer to write until none of it is left
write_all(hs, bytes) == Hasher_write(hs, bytes)

\* Hasher::finish: pads, mixes the length in, returns out_len bytes
Hasher_finish(hs) ==
  LET s == IF hs.finalized THEN Hasher_init(hs) ELSE hs
      h == compress(compress(s.h, s.buf), <<s.len>>)
  IN  [hasher |-> [s EXCEPT !.finalized = TRUE],
       data |-> [i \in 1..out_len(s.alg) |-> (h + i * i) % 256]]

\* Sha256::new / Sha512::new
Digest_new(alg) == Hasher_new(alg)

\* variant: every update starts the hash over
Digest_update_restart(d, bytes) == write_all(Hasher_init(d), bytes)

\* Sha256::update / Sha512::update
Digest_update(d, bytes) == write_all(d, bytes)

\* Sha256::finish / Sha512::finish (&mut self): copy_from_slice panics when
\* the lengths differ
Digest_finish(d) ==
  LET r == Hasher_finish(d)
      n == IF d.alg = "SHA256" THEN Sha256Len ELSE Sha512Len
  IN  [digest |-> r.hasher,
       ret |-> IF Len(r.data) = n THEN r.data ELSE <<"panic">>]

\* a digest that was moved out of: the value no longer exists
Moved == [alg |-> "moved", h |-> 0, buf |-> <<>>, len |-> 0, finalized |-> TRUE]

\* variant: fixed_result borrows the digest like finish does
Digest_fixed_result_borrow(d) == Digest_finish(d)

\* <Sha256 as FixedOutput>::fixed_result / <Sha512 ..>::fixed_result (mut
\* self): the value of finish; the digest is taken by value and dropped
Digest_fixed_result(d) ==
  [digest |-> Moved, ret |-> Digest_finish(d).ret]

\* ----------------------------------------------------------------- state
VARIABLES
  pc,         \* "start", "loaded", "failed", "returned"
  config,     \* the configuration handed to the loader
  loaded,     \* outcome of loading: Ok(key set) or Err
  call,       \* arguments of the TrustedKeySet::verify call
  result,     \* its return value
  calls,      \* records the signature math was invoked on, in order
  fast,       \* the fast-path record of the call (0: none)
  digest,     \* the digest under use (a Sha256 or a Sha512)
  ops,        \* operations applied to it since new
  hash_out    \* value returned by the last finish

vars == <<pc, config, loaded, call, result, calls, fast, digest, ops, hash_out>>
keyVars == <<pc, config, loaded, call, result, calls, fast>>
digestVars == <<digest, ops, hash_out>>

NoCall == [data |-> "none", sig |-> [signer |-> "none", msg |-> "none", fp |-> 0],
           privilege |-> "none"]
NoResult == [ok |-> FALSE, val |-> FALSE, err |-> "nocall"]
NotLoaded == [ok |-> FALSE, keys |-> <<>>, entry_index |-> 0]
NoDigest == [alg |-> "none", h |-> 0, buf |-> <<>>, len |-> 0, finalized |-> FALSE]

RECURSIVE SeqsUpTo(_, _)
SeqsUpTo(S, n) ==
  IF n = 0 THEN {<<>>}
  ELSE LET shorter == SeqsUpTo(S, n - 1)
       IN  shorter \cup {Append(s, x) : s \in {t \in shorter : Len(t) = n - 1}, x \in S}

Init ==
  /\ pc = "start"
  /\ config = <<>>
  /\ loaded = NotLoaded
  /\ call = NoCall
  /\ result = NoResult
  /\ calls = <<>>
  /\ fast = 0
  /\ digest = NoDigest
  /\ ops = <<>>
  /\ hash_out = <<>>

\* the caller loads the key set once, from a configuration of `universe`
LoadFrom(universe) ==
  /\ pc = "start"
  /\ \E cfg \in universe :
       LET r == TrustedKeySet_deserialize(cfg)
       IN  /\ config' = cfg
           /\ loaded' = r
           /\ pc' = IF r.ok THEN "loaded" ELSE "failed"
  /\ UNCHANGED <<call, result, calls, fast>>
  /\ UNCHANGED digestVars

Load == LoadFrom(SeqsUpTo(CanonEntries, MaxKeys))

LoadAny == LoadFrom(SeqsUpTo(Entries, MaxEntries))

\* one verification against the loaded, immutable key set; the call reads
\* nothing but its arguments and the key set, so one call per run is followed
Verify ==
  /\ pc = "loaded"
  /\ \E data \in Messages, sig \in Signatures, p \in Privilege :
       LET r == TrustedKeySet_verify(loaded.keys, data, sig, p)
       IN  /\ call' = [data |-> data, sig |-> sig, privilege |-> p]
           /\ result' = r.result
           /\ calls' = r.calls
           /\ fast' = r.fast
  /\ pc' = "returned"
  /\ UNCHANGED <<config, loaded>>
  /\ UNCHANGED digestVars

Next == Load \/ Verify

Spec == Init /\ [][Next]_vars

NextLoad == LoadAny \/ Verify

SpecLoad == Init /\ [][NextLoad]_vars

\* ---- digest runs
New ==
  /\ digest = NoDigest
  /\ \E alg \in Algorithms : digest' = Digest_new(alg)
  /\ ops' = <<>>
  /\ hash_out' = <<>>
  /\ UNCHANGED keyVars

Update ==
  /\ digest.alg \in Algorithms
  /\ Len(ops) < MaxOps
  /\ \E bytes \in SeqsUpTo(Bytes, MaxChunk) :
       /\ digest' = Digest_update(digest, bytes)
       /\ ops' = Append(ops, [op |-> "update", bytes |-> bytes])
  /\ UNCHANGED hash_out
  /\ UNCHANGED keyVars

Finish ==
  /\ digest.alg \in Algorithms
  /\ Len(ops) < MaxOps
  /\ LET r == Digest_finish(digest)
     IN  /\ digest' = r.digest
         /\ hash_out' = r.ret
  /\ ops' = Append(ops, [op |-> "finish", bytes |-> <<>>])
  /\ UNCHANGED keyVars

\* fixed_result takes the digest by value: nothing can follow it
FixedResult ==
  /\ digest.alg \in Algorithms
  /\ Len(ops) < MaxOps
  /\ LET r == Digest_fixed_result(digest)
     IN  /\ digest' = r.digest
         /\ hash_out' = r.ret
  /\ ops' = Append(ops, [op |-> "fixed_result", bytes |-> <<>>])
  /\ UNCHANGED keyVars

NextDigest == New \/ Update \/ Finish \/ FixedResult

SpecDigest == Init /\ [][NextDigest]_vars

\* ------------------------------------------------- vocabulary of the claims
\* the call has returned
Returned == pc = "returned"

K == loaded.keys

\* record r holds privilege p (read off the record's fields)
Holds(r, p) == (p = "Commit" /\ r.can_commit) \/ (p = "Rotate" /\ r.can_rotate)

\* the key conversion of record r fails at verification time
Raises(r) == ~to_dalek(r.key).ok

\* the signature of the call verifies over the data of the call under r's key
Verifies(r) == ~Raises(r) /\ verify_dalek(call.sig, to_dalek(r.key).key, call.data)

CallsSet == {calls[j] : j \in 1..Len(calls)}

\* C1: verify returns Ok(true) only if the signature math was invoked on, and
\* returned true for, a record that holds the requested privilege.
C1_NoAcceptanceWithoutVerification ==
  (Returned /\ result = OkTrue) =>
    \E i \in CallsSet : Holds(K[i], call.privilege) /\ Verifies(K[i])

\* an acceptance while a record lacking the privilege carries the hinted
\* fingerprint and a key under which the signature verifies
C1_Witness ==
  /\ Returned /\ result = OkTrue
  /\ \E i \in 1..Len(K) : /\ ~Holds(K[i], call.privilege)
                          /\ fingerprint(K[i].key) = call.sig.fp
                          /\ Verifies(K[i])

\* C2: two signatures that differ only in the claimed fingerprint get the
\* same result from verify.
C2_HintIrrelevant ==
  Returned =>
    \A fp \in Fingerprints :
      TrustedKeySet_verify(K, call.data, [call.sig EXCEPT !.fp = fp],
                           call.privilege).result = result

\* C3: when the key conversion fails on no record holding p, verify returns
\* Ok(true) if the signature verifies under some record holding p and
\* Ok(false) otherwise.
C3_ReferenceResult ==
  (Returned /\ \A i \in 1..Len(K) : Holds(K[i], call.privilege) => ~Raises(K[i])) =>
    result = IF \E i \in 1..Len(K) : Holds(K[i], call.privilege) /\ Verifies(K[i])
               THEN OkTrue ELSE OkFalse

\* accepted by the fallback scan after a fast path that failed, the accepting
\* record being the last of three
C3_Witness ==
  /\ Returned /\ result = OkTrue
  /\ \A i \in 1..Len(K) : Holds(K[i], call.privilege) => ~Raises(K[i])
  /\ fast # 0 /\ Len(calls) = 3 /\ calls[3] = 3

\* C4: when no record holds p, verify returns Ok(false) and the signature
\* math is invoked on no record.
C4_EmptyPrivilegedFailsClosed ==
  (Returned /\ \A i \in 1..Len(K) : ~Holds(K[i], call.privilege)) =>
    (result = OkFalse /\ calls = <<>>)

\* no record holds p, one record carries the hinted fingerprint and a key
\* that verifies, another one a key that raises
C4_Witness ==
  /\ Returned
  /\ \A i \in 1..Len(K) : ~Holds(K[i], call.privilege)
  /\ \E i \in 1..Len(K) : fingerprint(K[i].key) = call.sig.fp /\ Verifies(K[i])
  /\ \E i \in 1..Len(K) : Raises(K[i])

\* C5: an invocation that raises is the last one of the call and its error is
\* the result; no record is invoked twice.
C5_ErrorPropagation ==
  Returned =>
    /\ \A j \in 1..Len(calls) :
         Raises(K[calls[j]]) => (j = Len(calls) /\ result = Err(K[calls[j]].key))
    /\ \A j1, j2 \in 1..Len(calls) : calls[j1] = calls[j2] => j1 = j2
    /\ ~result.ok => (calls # <<>> /\ Raises(K[calls[Len(calls)]]))

\* the fallback scan raises on its first record and leaves a record that
\* holds p and verifies uninvoked
C5_Witness ==
  /\ Returned /\ ~result.ok
  /\ fast # 0 /\ Len(calls) = 2
  /\ \E i \in 1..Len(K) : /\ i \notin CallsSet
                          /\ Holds(K[i], call.privilege) /\ Verifies(K[i])

\* the scenario of C6: A holds only Commit, B only Rotate, B signed, the hint
\* is A's fingerprint
C6_Scenario ==
  /\ K = << [key |-> "A", can_commit |-> TRUE, can_rotate |-> FALSE],
            [key |-> "B", can_commit |-> FALSE, can_rotate |-> TRUE] >>
  /\ call.sig.signer = "B" /\ call.sig.msg = call.data
  /\ call.sig.fp = fingerprint("A")

\* C6: in the scenario verify gives Ok(false) for Commit and Ok(true) for
\* Rotate; a signature that verifies under no record holding p is never
\* accepted for p, and the fast-path record always holds p.
C6_PrivilegeSeparation ==
  Returned =>
    /\ C6_Scenario =>
         result = IF call.privilege = "Commit" THEN OkFalse ELSE OkTrue
    /\ (\A i \in 1..Len(K) : Verifies(K[i]) => ~Holds(K[i], call.privilege))
         => result # OkTrue
    /\ fast # 0 => Holds(K[fast], call.privilege)

\* the scenario, asked for Commit: the hinted record holds Commit, the
\* signature verifies under B only
C6_Witness ==
  /\ Returned /\ C6_Scenario /\ call.privilege = "Commit"
  /\ fast = 1 /\ result = OkFalse

\* the first record, in load order, that holds p and carries the hinted
\* fingerprint (0: none)
FirstHinted ==
  LET hit(i) == Holds(K[i], call.privilege) /\ fingerprint(K[i].key) = call.sig.fp
  IN  IF \E i \in 1..Len(K) : hit(i)
        THEN CHOOSE i \in 1..Len(K) : hit(i) /\ \A j \in 1..(i - 1) : ~hit(j)
        ELSE 0

\* C7: if the signature verifies under the first hinted record, verify
\* returns Ok(true) after one invocation, made on that record.
C7_FastPathSuffices ==
  (Returned /\ FirstHinted # 0 /\ Verifies(K[FirstHinted])) =>
    (result = OkTrue /\ calls = <<FirstHinted>>)

\* the fast path accepts while the key set also holds a privileged record
\* that raises and a second record with the hinted fingerprint
C7_Witness ==
  /\ Returned /\ FirstHinted # 0 /\ Verifies(K[FirstHinted])
  /\ result = OkTrue /\ Len(K) = 3
  /\ \E i \in 1..Len(K) : /\ i # FirstHinted /\ Holds(K[i], call.privilege)
                          /\ Raises(K[i])
                          /\ fingerprint(K[i].key) = call.sig.fp

\* C8: loading fails, and yields no key set, when some entry's key text does
\* not parse; otherwise the key set has one record per entry, in entry order.
C8_LoadAllOrNothing ==
  pc # "start" =>
    IF \E i \in 1..Len(config) : ~parse(config[i].key).ok
      THEN pc = "failed" /\ ~loaded.ok /\ loaded.keys = <<>> /\ result = NoResult
      ELSE /\ loaded.ok /\ Len(K) = Len(config)
           /\ \A i \in 1..Len(config) : K[i].key = parse(config[i].key).key

\* entry 2 of 3 does not parse, entries 1 and 3 do
C8_Witness ==
  /\ pc = "failed" /\ Len(config) = 3
  /\ parse(config[1].key).ok /\ ~parse(config[2].key).ok /\ parse(config[3].key).ok

\* C9: a record holds Commit only if its entry says can-commit = true and
\* Rotate only if it says can-rotate = true; a record loaded with neither
\* field is never invoked and never accepts.
C9_LeastPrivilegeDefault ==
  loaded.ok =>
    /\ Len(K) = Len(config)
    /\ \A i \in 1..Len(K) :
         /\ config[i].can_commit = "absent" => ~K[i].can_commit
         /\ config[i].can_rotate = "absent" => ~K[i].can_rotate
         /\ K[i].can_commit = (config[i].can_commit = "true")
         /\ K[i].can_rotate = (config[i].can_rotate = "true")
         /\ (config[i].can_commit = "absent" /\ config[i].can_rotate = "absent")
              => i \notin CallsSet
    /\ (Returned /\ result = OkTrue) =>
         ~(config[calls[Len(calls)]].can_commit = "absent"
             /\ config[calls[Len(calls)]].can_rotate = "absent")

\* a call whose signature verifies under the key of an entry that has
\* neither field and carries the hinted fingerprint, next to an entry that
\* has one field only
C9_Witness ==
  /\ Returned /\ result = OkFalse
  /\ \E i \in 1..Len(K) : /\ config[i].can_commit = "absent"
                          /\ config[i].can_rotate = "absent"
                          /\ Verifies(K[i])
                          /\ fingerprint(K[i].key) = call.sig.fp
  /\ \E i \in 1..Len(K) : /\ config[i].can_commit = "absent"
                          /\ config[i].can_rotate = "true"

\* all bytes passed to update, in order
RECURSIVE Fed(_)
Fed(o) ==
  IF o = <<>> THEN <<>>
  ELSE (IF Head(o).op = "update" THEN Head(o).bytes ELSE <<>>) \o Fed(Tail(o))

\* updates only, then one finish
FreshRun ==
  /\ ops # <<>>
  /\ ops[Len(ops)].op = "finish"
  /\ \A j \in 1..(Len(ops) - 1) : ops[j].op = "update"

\* C10: the value finish returns on a fresh digest after any updates equals
\* the value of a fresh digest given one update of the concatenation.
C10_IncrementalHash ==
  FreshRun =>
    hash_out = Digest_finish(Digest_update(Digest_new(digest.alg), Fed(ops))).ret

\* update(m1); update(m2); finish with m1 ending inside a block
C10_Witness ==
  /\ FreshRun /\ Len(ops) = 3
  /\ Len(ops[1].bytes) = 1 /\ Len(ops[2].bytes) = 2
  /\ Len(hash_out) = out_len(digest.alg)

\* C11 as stated: finish is the last operation applied to a digest.
C11_FinishTerminal ==
  \A j \in 1..Len(ops) : ops[j].op = "finish" => j = Len(ops)

\* C11, amended: finish borrows the digest, so updates and further finishes
\* may follow it; fixed_result takes the digest by value, is the last
\* operation applied to it and is applied at most once.
C11_FixedResultTerminal ==
  /\ \A j \in 1..Len(ops) : ops[j].op = "fixed_result" => j = Len(ops)
  /\ (digest = Moved) <=> (ops # <<>> /\ ops[Len(ops)].op = "fixed_result")

\* a digest consumed by fixed_result after a finish, while the run has room
\* for more operations
C11_Witness ==
  /\ digest = Moved /\ Len(ops) = 2 /\ Len(ops) < MaxOps
  /\ ops[1].op = "finish" /\ ops[2].op = "fixed_result"
  /\ Len(hash_out) = out_len("SHA512")

\* number of invocations of the signature math on the record at position i
Invocations(i) == Cardinality({j \in 1..Len(calls) : calls[j] = i})

\* C12 as stated: when verify returns Ok(false) the signature math was
\* invoked exactly once on every position that holds p.
C12_ExhaustiveByPosition ==
  (Returned /\ result = OkFalse) =>
    \A i \in 1..Len(K) : Holds(K[i], call.privilege) => Invocations(i) = 1

\* C12, amended: when verify returns Ok(false) the signature math was invoked
\* exactly once on every position that holds p, except the positions other
\* than the fast-path match whose record equals the matched record (same key,
\* same grants), on which it was not invoked.
C12_ExhaustiveUpToEqualRecords ==
  (Returned /\ result = OkFalse) =>
    \A i \in 1..Len(K) :
      Holds(K[i], call.privilege) =>
        Invocations(i) = IF FirstHinted # 0 /\ i # FirstHinted /\ K[i] = K[FirstHinted]
                           THEN 0 ELSE 1

\* Ok(false) from a key set holding the matched record twice and, between the
\* two, another record that holds p
C12_Witness ==
  /\ Returned /\ result = OkFalse
  /\ Len(K) = 3 /\ FirstHinted = 1 /\ K[3] = K[1] /\ K[2] # K[1]
  /\ Holds(K[2], call.privilege)
  /\ calls = <<1, 2>>

\* the positions of the key set that hold the privilege of the call
PrivilegedPositions == {i \in 1..Len(K) : Holds(K[i], call.privilege)}

\* C13: the signature math is invoked only on records holding p, at most
\* once per record and so at most once per privileged record in total; the
\* fast-path match, if any, comes first, the others follow in load order, and
\* an invocation that returned true or raised is the last one.
C13_BoundedPrivilegedWork ==
  Returned =>
    /\ \A j \in 1..Len(calls) : calls[j] \in PrivilegedPositions
    /\ \A i \in 1..Len(K) : Invocations(i) <= 1
    /\ Len(calls) <= Cardinality(PrivilegedPositions)
    /\ fast = FirstHinted
    /\ FirstHinted # 0 => (calls # <<>> /\ calls[1] = FirstHinted)
    /\ \A j1, j2 \in 1..Len(calls) :
         (j1 < j2 /\ calls[j1] # FirstHinted) => calls[j1] < calls[j2]
    /\ \A j \in 1..(Len(calls) - 1) :
         ~Verifies(K[calls[j]]) /\ ~Raises(K[calls[j]])

\* the fast-path match is the last of three privileged records and does not
\* verify; the scan accepts at the first record and never invokes the second,
\* which would verify too
C13_Witness ==
  /\ Returned /\ result = OkTrue
  /\ Cardinality(PrivilegedPositions) = 3
  /\ calls = <<3, 1>>
  /\ Verifies(K[2])

\* the key sets that hold the records of ks in some order
Reorderings(ks) ==
  {[i \in 1..Len(ks) |-> ks[q[i]]] : q \in Permutations(1..Len(ks))}

\* C14: verify returns the same result on every reordering of the key set.
C14_OrderIrrelevant ==
  Returned =>
    \A ks \in Reorderings(K) :
      TrustedKeySet_verify(ks, call.data, call.sig, call.privilege).result = result

====
